---- MODULE Spec2Model ----
(***************************************************************************)
(* Model of util/update_lints.py: the lint collector, the table and group  *)
(* renderers, replace_region and main.                                     *)
(*                                                                         *)
(* Text is modelled character by character: a string is a sequence of      *)
(* one-character strings, a file on disk is one such sequence, and the     *)
(* regular expressions of the script are matchers over these sequences.    *)
(***************************************************************************)
EXTENDS Integers, Sequences, FiniteSets, TLC

(***************************************************************************)
(* Bounds of the model.                                                    *)
(***************************************************************************)
\* longest README.md, in lines, the runs start from
MaxScan == 4
\* longest src/lib.rs, in lines, the runs start from
MaxLib == 3
\* most lint records declared by the source files other than src/lib.rs
MaxLints == 2

(***************************************************************************)
(* Characters and strings.                                                 *)
(***************************************************************************)
NL == "\n"
DQ == "\""
BS == "\\"

\* the printable ASCII characters, code points 32 .. 126, in order (the grave
\* accent, which no text of the model holds, is written as a word)
Ascii ==
    <<" ", "!", DQ, "#", "$", "%", "&", "'", "(", ")", "*", "+", ",", "-", ".", "/",
      "0", "1", "2", "3", "4", "5", "6", "7", "8", "9", ":", ";", "<", "=", ">", "?",
      "@", "A", "B", "C", "D", "E", "F", "G", "H", "I", "J", "K", "L", "M", "N", "O",
      "P", "Q", "R", "S", "T", "U", "V", "W", "X", "Y", "Z", "[", BS, "]", "^", "_",
      "GRAVE", "a", "b", "c", "d", "e", "f", "g", "h", "i", "j", "k", "l", "m", "n", "o",
      "p", "q", "r", "s", "t", "u", "v", "w", "x", "y", "z", "{", "|", "}", "~">>

Chars == {Ascii[i] : i \in 1..Len(Ascii)} \cup {NL}

\* the code point of a character (Python compares strings by code point)
Code == [c \in Chars |->
            IF c = NL THEN 10 ELSE 31 + (CHOOSE i \in 1..Len(Ascii) : Ascii[i] = c)]

Chr(n) == Ascii[n - 31]

IsUpper(c) == Code[c] >= 65 /\ Code[c] <= 90
IsLower(c) == Code[c] >= 97 /\ Code[c] <= 122
IsDigit(c) == Code[c] >= 48 /\ Code[c] <= 57
\* \s of the re module, over the characters of the model
IsSpace(c) == c = " " \/ c = NL

\* str.lower() and str.upper()
Lower(s) == [i \in 1..Len(s) |-> IF IsUpper(s[i]) THEN Chr(Code[s[i]] + 32) ELSE s[i]]
Upper(s) == [i \in 1..Len(s) |-> IF IsLower(s[i]) THEN Chr(Code[s[i]] - 32) ELSE s[i]]

\* c * n
Rep(c, n) == [i \in 1..n |-> c]

Max(a, b) == IF a >= b THEN a ELSE b

\* the %-*s conversion: s left-justified in a field of width w, never cut
PadRight(s, w) == s \o Rep(" ", Max(0, w - Len(s)))

\* the %d conversion, for n >= 0
RECURSIVE Dec(_)
Dec(n) == IF n < 10 THEN <<Chr(48 + n)>> ELSE Dec(n \div 10) \o <<Chr(48 + (n % 10))>>

\* s < t for Python strings: lexicographic by code point, a proper prefix first
RECURSIVE StrLess(_, _)
StrLess(s, t) ==
    IF t = <<>> THEN FALSE
    ELSE IF s = <<>> THEN TRUE
    ELSE IF s[1] # t[1] THEN Code[s[1]] < Code[t[1]]
    ELSE StrLess(Tail(s), Tail(t))

\* s occurs in t starting at index i
OccursAt(s, t, i) == i >= 1 /\ i + Len(s) - 1 <= Len(t) /\ SubSeq(t, i, i + Len(s) - 1) = s

StartsWith(t, s) == OccursAt(s, t, 1)

\* fp.writelines(lines): the strings one after the other, nothing added
RECURSIVE Flatten(_)
Flatten(ls) == IF ls = <<>> THEN <<>> ELSE Head(ls) \o Flatten(Tail(ls))

\* the least element of a set of numbers that is not empty
Least(S) == CHOOSE x \in S : \A y \in S : x <= y

\* list(fp) from index i: the text cut after every newline; a last line may
\* lack its newline
RECURSIVE SplitFrom(_, _)
SplitFrom(text, i) ==
    IF i > Len(text) THEN <<>>
    ELSE LET nls == {j \in i..Len(text) : text[j] = NL}
             e == IF nls = {} THEN Len(text) ELSE Least(nls)
         IN  <<SubSeq(text, i, e)>> \o SplitFrom(text, e + 1)

ReadLines(text) == SplitFrom(text, 1)

(***************************************************************************)
(* The regular expressions, as matchers of re.search on one line.          *)
(***************************************************************************)
S_name == <<"n", "a", "m", "e">>
S_hdr_tail == <<" ", "|", " ", "d", "e", "f", "a", "u", "l", "t", " ", "|", " ", "m", "e", "a", "n", "i", "n", "g", NL>>
S_there_are == <<"T", "h", "e", "r", "e", " ", "a", "r", "e", " ">>
S_lints_included == <<" ", "l", "i", "n", "t", "s", " ", "i", "n", "c", "l", "u", "d", "e", "d", " ", "i", "n", " ", "t", "h", "i", "s", " ", "c", "r", "a", "t", "e", ":">>
S_reg == <<"r", "e", "g">>
S_register_lint_group == <<"r", "e", "g", "i", "s", "t", "e", "r", "_", "l", "i", "n", "t", "_", "g", "r", "o", "u", "p", "(", DQ, "c", "l", "i", "p", "p", "y", DQ>>
S_group_end == <<"]", ")", ";">>
S_indent == <<" ", " ", " ", " ", " ", " ", " ", " ">>

\* ^name +\|  : "name" at the start of the line, one or more blanks, a bar
Match_table_start(line) ==
    /\ StartsWith(line, S_name)
    /\ \E k \in 5..(Len(line) - 1) :
          /\ \A j \in 5..k : line[j] = " "
          /\ line[k + 1] = "|"

\* ^$  : without re.M, the empty string or a lone newline
Match_blank(line) == line = <<>> \/ line = <<NL>>

\* ^There are \d+ lints included in this crate:
Match_count(line) ==
    /\ StartsWith(line, S_there_are)
    /\ \E k \in (Len(S_there_are) + 1)..Len(line) :
          /\ \A j \in (Len(S_there_are) + 1)..k : IsDigit(line[j])
          /\ OccursAt(S_lints_included, line, k + 1)

\* the empty pattern: matches every line
Match_empty(line) == TRUE

\* reg.register_lint_group\("clippy"  : anywhere in the line; the dot is any
\* character but a newline
Match_group_start(line) ==
    \E i \in 1..Len(line) :
        /\ OccursAt(S_reg, line, i)
        /\ i + 3 <= Len(line)
        /\ line[i + 3] # NL
        /\ OccursAt(S_register_lint_group, line, i + 4)

\* \]\);  : anywhere in the line
Match_group_end(line) == \E i \in 1..Len(line) : OccursAt(S_group_end, line, i)

\* re.search(pattern, line), the pattern named by its source text
Search(pattern, line) ==
    CASE pattern = "^name +\\|" -> Match_table_start(line)
      [] pattern = "^$" -> Match_blank(line)
      [] pattern = "^There are \\d+ lints included in this crate:" -> Match_count(line)
      [] pattern = "" -> Match_empty(line)
      [] pattern = "reg.register_lint_group\\(\"clippy\"" -> Match_group_start(line)
      [] pattern = "\\]\\);" -> Match_group_end(line)

(***************************************************************************)
(* The collector: declare_lint_re, nl_escape_re and collect.               *)
(***************************************************************************)
S_declare_lint == <<"d", "e", "c", "l", "a", "r", "e", "_", "l", "i", "n", "t", "!">>
S_pub == <<"p", "u", "b">>
S_lib == <<"l", "i", "b">>
Levels == <<<<"F", "o", "r", "b", "i", "d">>, <<"D", "e", "n", "y">>, <<"W", "a", "r", "n">>, <<"A", "l", "l", "o", "w">>>>

NoMatch == [found |-> FALSE]

\* \s* from index i: the index of the first character that is no white space
RECURSIVE SkipSpace(_, _)
SkipSpace(text, i) ==
    IF i <= Len(text) /\ IsSpace(text[i]) THEN SkipSpace(text, i + 1) ELSE i

\* [A-Z_]+ from index i: the index after the longest run
RECURSIVE SkipName(_, _)
SkipName(text, i) ==
    IF i <= Len(text) /\ (IsUpper(text[i]) \/ text[i] = "_") THEN SkipName(text, i + 1) ELSE i

\* (?:[^"\\]+|\\.)* from index i: the index of the closing quote, 0 if the text
\* ends first (with re.S the dot after a backslash is any character)
RECURSIVE SkipDesc(_, _)
SkipDesc(text, i) ==
    IF i > Len(text) THEN 0
    ELSE IF text[i] = DQ THEN i
    ELSE IF text[i] = BS THEN (IF i + 1 > Len(text) THEN 0 ELSE SkipDesc(text, i + 2))
    ELSE SkipDesc(text, i + 1)

\* the character at index i is one of cs
CharIn(text, i, cs) == i <= Len(text) /\ text[i] \in cs

\* declare_lint_re matched at index i of text: the groups and the index after
\* the match, or NoMatch
MatchDeclAt(text, i) ==
    IF ~OccursAt(S_declare_lint, text, i) THEN NoMatch
    ELSE LET a == SkipSpace(text, i + Len(S_declare_lint)) IN
    IF ~CharIn(text, a, {"{", "("}) THEN NoMatch
    ELSE LET b == SkipSpace(text, a + 1) IN
    IF ~OccursAt(S_pub, text, b) THEN NoMatch
    ELSE LET c == SkipSpace(text, b + Len(S_pub)) IN
    IF c = b + Len(S_pub) THEN NoMatch
    ELSE LET d == SkipName(text, c) IN
    IF d = c THEN NoMatch
    ELSE LET e == SkipSpace(text, d) IN
    IF ~CharIn(text, e, {","}) THEN NoMatch
    ELSE LET f == SkipSpace(text, e + 1)
             ks == {k \in 1..Len(Levels) : OccursAt(Levels[k], text, f)} IN
    IF ks = {} THEN NoMatch
    ELSE LET level == Levels[CHOOSE k \in ks : TRUE]
             g == SkipSpace(text, f + Len(level)) IN
    IF ~CharIn(text, g, {","}) THEN NoMatch
    ELSE LET h == SkipSpace(text, g + 1) IN
    IF ~CharIn(text, h, {DQ}) THEN NoMatch
    ELSE LET q == SkipDesc(text, h + 1) IN
    IF q = 0 THEN NoMatch
    ELSE LET r == SkipSpace(text, q + 1) IN
    IF ~CharIn(text, r, {"}", ")"}) THEN NoMatch
    ELSE [found |-> TRUE, name |-> SubSeq(text, c, d - 1), level |-> level,
          desc |-> SubSeq(text, h + 1, q - 1), end |-> r + 1]

\* nl_escape_re.sub('', desc): a backslash, a newline and the white space after
\* them are removed
RECURSIVE NlEscapeSub(_)
NlEscapeSub(s) ==
    IF s = <<>> THEN <<>>
    ELSE IF Len(s) >= 2 /\ s[1] = BS /\ s[2] = NL
         THEN NlEscapeSub(SubSeq(s, SkipSpace(s, 3), Len(s)))
    ELSE <<s[1]>> \o NlEscapeSub(Tail(s))

\* desc.replace('\\"', '"')
RECURSIVE UnescapeQuotes(_)
UnescapeQuotes(s) ==
    IF s = <<>> THEN <<>>
    ELSE IF Len(s) >= 2 /\ s[1] = BS /\ s[2] = DQ
         THEN <<DQ>> \o UnescapeQuotes(SubSeq(s, 3, Len(s)))
    ELSE <<s[1]>> \o UnescapeQuotes(Tail(s))

\* one record of the lints list: (module, name, level, desc)
LintRecord(module, m) ==
    [module |-> module, name |-> Lower(m.name), level |-> Lower(m.level),
     desc |-> UnescapeQuotes(NlEscapeSub(m.desc))]

\* declare_lint_re.finditer(code) from index i, each match turned into a
\* record: a match can only start where the text declare_lint! does
RECURSIVE FindDecls(_, _, _)
FindDecls(module, code, i) ==
    LET starts == {j \in i..Len(code) : OccursAt(S_declare_lint, code, j)} IN
    IF starts = {} THEN <<>>
    ELSE LET j == Least(starts)
             m == MatchDeclAt(code, j)
         IN  IF m.found THEN <<LintRecord(module, m)>> \o FindDecls(module, code, m.end)
             ELSE FindDecls(module, code, j + 1)

\* collect(lints, fn): the records a file adds to the list
collect(module, code) == FindDecls(module, code, 1)

(***************************************************************************)
(* The renderers: gen_table and gen_group.  A generator is modelled by     *)
(* what consuming it gives: the lines it yields (out), or the exception it *)
(* raises before yielding any (raised).                                    *)
(***************************************************************************)
Yields(ls) == [raised |-> FALSE, out |-> ls]
Raises == [raised |-> TRUE, out |-> <<>>]

\* max(len(f(l)) for l in lints), for a list that is not empty
RECURSIVE MaxLen(_, _)
MaxLen(lints, field) ==
    IF Len(lints) = 1 THEN Len(lints[1][field])
    ELSE Max(Len(lints[1][field]), MaxLen(Tail(lints), field))

\* a record put in a list sorted by name, after the records whose name is not
\* greater: sorted(..., key=lambda l: l[1]) is stable
RECURSIVE InsertByName(_, _)
InsertByName(x, sorted) ==
    IF sorted = <<>> THEN <<x>>
    ELSE IF StrLess(x.name, Head(sorted).name) THEN <<x>> \o sorted
    ELSE <<Head(sorted)>> \o InsertByName(x, Tail(sorted))

RECURSIVE SortByNameFrom(_, _)
SortByNameFrom(lints, sorted) ==
    IF lints = <<>> THEN sorted
    ELSE SortByNameFrom(Tail(lints), InsertByName(Head(lints), sorted))

\* a slip: the rows in the order of the list
SortByNameForgotten(lints) == lints

\* sorted(lints, key=lambda l: l[1])
SortByName(lints) == SortByNameFrom(lints, <<>>)

\* the order of Python tuples (module, name, level, desc)
RecordLess(a, b) ==
    IF a.module # b.module THEN StrLess(a.module, b.module)
    ELSE IF a.name # b.name THEN StrLess(a.name, b.name)
    ELSE IF a.level # b.level THEN StrLess(a.level, b.level)
    ELSE StrLess(a.desc, b.desc)

RECURSIVE InsertRecord(_, _)
InsertRecord(x, sorted) ==
    IF sorted = <<>> THEN <<x>>
    ELSE IF RecordLess(x, Head(sorted)) THEN <<x>> \o sorted
    ELSE <<Head(sorted)>> \o InsertRecord(x, Tail(sorted))

RECURSIVE SortRecordsFrom(_, _)
SortRecordsFrom(lints, sorted) ==
    IF lints = <<>> THEN sorted
    ELSE SortRecordsFrom(Tail(lints), InsertRecord(Head(lints), sorted))

\* sorted(lints)
SortRecords(lints) == SortRecordsFrom(lints, <<>>)

\* the header line of the table
TableHeader(w_name) == PadRight(S_name, w_name) \o S_hdr_tail

\* the underline of the table
TableUnderline(w_name, w_desc) ==
    Rep("-", w_name) \o <<"-", "|", "-">> \o Rep("-", 7) \o <<"-", "|", "-">>
        \o Rep("-", w_desc) \o <<NL>>

\* one row of the table
TableRow(w_name, l) ==
    PadRight(l.name, w_name) \o <<" ", "|", " ">> \o PadRight(l.level, 7)
        \o <<" ", "|", " ">> \o l.desc \o <<NL>>

\* the lines of the table of a list that is not empty
TableLines(lints) ==
    LET w_name == MaxLen(lints, "name")
        w_desc == MaxLen(lints, "desc")
        rows == SortByName(lints)
    IN  <<TableHeader(w_name), TableUnderline(w_name, w_desc)>>
          \o [i \in 1..Len(rows) |-> TableRow(w_name, rows[i])]

\* a variant: the widths of an empty list taken as 0, a table without rows
gen_table_default(lints) ==
    IF lints = <<>> THEN Yields(<<TableHeader(0), TableUnderline(0, 0)>>)
    ELSE Yields(TableLines(lints))

\* gen_table(lints), consumed: max() of an empty list raises ValueError at the
\* first next(), before the header is yielded
gen_table(lints) ==
    IF lints = <<>> THEN Raises ELSE Yields(TableLines(lints))

\* one line of the group
GroupLine(l) == S_indent \o l.module \o <<":", ":">> \o Upper(l.name) \o <<",", NL>>

\* gen_group(lints), consumed
gen_group(lints) ==
    LET rows == SortRecords(lints)
    IN  Yields([i \in 1..Len(rows) |-> GroupLine(rows[i])])

\* the one line the count callback returns
CountLine(lints) == S_there_are \o Dec(Len(lints)) \o S_lints_included \o <<NL>>

count_callback(lints) == Yields(<<CountLine(lints)>>)

(***************************************************************************)
(* replace_region.                                                         *)
(***************************************************************************)
\* the three calls main makes: file, patterns, callback and replace_start
TableCall ==
    [fn |-> "README.md", region_start |-> "^name +\\|", region_end |-> "^$",
     callback |-> "gen_table", replace_start |-> TRUE]
CountCall ==
    [fn |-> "README.md",
     region_start |-> "^There are \\d+ lints included in this crate:",
     region_end |-> "", callback |-> "count", replace_start |-> TRUE]
GroupCall ==
    [fn |-> "src/lib.rs", region_start |-> "reg.register_lint_group\\(\"clippy\"",
     region_end |-> "\\]\\);", callback |-> "gen_group", replace_start |-> FALSE]

\* callback(), consumed by new_lines.extend
Callback(call_, lints_) ==
    CASE call_.callback = "gen_table" -> gen_table(lints_)
      [] call_.callback = "count" -> count_callback(lints_)
      [] call_.callback = "gen_group" -> gen_group(lints_)

\* a slip: the end line replaced with the region
CloseRegionDropsEnd(new_lines, out, line) == new_lines \o out

\* a slip: replace_start ignored, the start line always kept
OpenRegionKeepsStart(new_lines, line, replace_start) == Append(new_lines, line)

\* a slip: the lines outside the region are not copied
CopyLineSkips(new_lines, line) == new_lines

\* lines 74-75: the region ends at line: the callback's lines, then the line
CloseRegion(new_lines, out, line) == new_lines \o out \o <<line>>

\* lines 77-78: the region starts at line, kept unless replace_start
OpenRegion(new_lines, line, replace_start) ==
    IF ~replace_start THEN Append(new_lines, line) ELSE new_lines

\* line 82: a line outside the region
CopyLine(new_lines, line) == Append(new_lines, line)

\* line 90: the value returned
Differs(lines, new_lines) == lines # new_lines

\* the loop over the lines from index i on; calls counts the callback's
\* invocations; raised: the callback raised and the loop was left
RECURSIVE ScanLines(_, _, _, _, _, _, _)
ScanLines(call, lints, lines, i, in_old_region, new_lines, calls) ==
    IF i > Len(lines)
    THEN [raised |-> FALSE, new_lines |-> new_lines, calls |-> calls,
          in_old_region |-> in_old_region]
    ELSE LET line == lines[i] IN
         IF in_old_region
         THEN IF Search(call.region_end, line)
              THEN LET cb == Callback(call, lints) IN
                   IF cb.raised
                   THEN [raised |-> TRUE, new_lines |-> new_lines, calls |-> calls + 1,
                         in_old_region |-> FALSE]
                   ELSE ScanLines(call, lints, lines, i + 1, FALSE,
                                  CloseRegion(new_lines, cb.out, line), calls + 1)
              ELSE ScanLines(call, lints, lines, i + 1, TRUE, new_lines, calls)
         ELSE IF Search(call.region_start, line)
              THEN ScanLines(call, lints, lines, i + 1, TRUE,
                             OpenRegion(new_lines, line, call.replace_start), calls)
              ELSE ScanLines(call, lints, lines, i + 1, FALSE,
                             CopyLine(new_lines, line), calls)

\* replace_region up to its write: the lines read and the result of the loop
replace_region(call, lints, text) ==
    LET lines == ReadLines(text)
        r == ScanLines(call, lints, lines, 1, FALSE, <<>>, 0)
    IN  [lines |-> lines, raised |-> r.raised, new_lines |-> r.new_lines,
         calls |-> r.calls, in_old_region |-> r.in_old_region,
         changed |-> Differs(lines, r.new_lines)]

(***************************************************************************)
(* The files and the declarations the runs start from.                     *)
(***************************************************************************)
\* lines of README.md: plain text, a blank line, a table header, a count
\* statement, and a last line without its newline
R_text == <<"x", NL>>
R_blank == <<NL>>
R_header == <<"n", "a", "m", "e", " ", "|", NL>>
R_count == <<"T", "h", "e", "r", "e", " ", "a", "r", "e", " ", "1", "2", " ", "l", "i", "n", "t", "s", " ", "i", "n", "c", "l", "u", "d", "e", "d", " ", "i", "n", " ", "t", "h", "i", "s", " ", "c", "r", "a", "t", "e", ":", NL>>
R_last == <<"x">>
ReadmePool == {R_text, R_blank, R_header, R_count, R_last}

\* lines of src/lib.rs: the opening of the group, its closing, a declaration,
\* and an empty group opened and closed on one line
G_start == <<"r", "e", "g", ".", "r", "e", "g", "i", "s", "t", "e", "r", "_", "l", "i", "n", "t", "_", "g", "r", "o", "u", "p", "(", DQ, "c", "l", "i", "p", "p", "y", DQ, ",", " ", "v", "e", "c", "!", "[", NL>>
G_end == <<"]", ")", ";", NL>>
G_decl == <<"d", "e", "c", "l", "a", "r", "e", "_", "l", "i", "n", "t", "!", "(", "p", "u", "b", " ", "C", ",", " ", "W", "a", "r", "n", ",", " ", DQ, "z", DQ, ")", NL>>
G_both == <<"r", "e", "g", ".", "r", "e", "g", "i", "s", "t", "e", "r", "_", "l", "i", "n", "t", "_", "g", "r", "o", "u", "p", "(", DQ, "c", "l", "i", "p", "p", "y", DQ, ",", " ", "v", "e", "c", "!", "[", "]", ")", ";", NL>>
LibPool == {G_start, G_end, G_decl, G_both}

\* records declared by the source files other than src/lib.rs
LintA == [module |-> <<"m">>, name |-> <<"b">>, level |-> <<"w", "a", "r", "n">>, desc |-> <<"x">>]
LintB == [module |-> <<"n">>, name |-> <<"a", "a">>, level |-> <<"a", "l", "l", "o", "w">>,
          desc |-> <<"y", "y">>]
\* the name of LintA again, in another module
LintC == [module |-> <<"k">>, name |-> <<"b">>, level |-> <<"d", "e", "n", "y">>, desc |-> <<"z">>]
\* a description that holds a blank line (a string literal over three lines)
LintD == [module |-> <<"k">>, name |-> <<"c">>, level |-> <<"f", "o", "r", "b", "i", "d">>,
          desc |-> <<NL, NL>>]
LintPool == {LintA, LintB, LintC, LintD}

\* the sequences over S of length at most n
SeqsUpTo(S, n) == UNION {[1..k -> S] : k \in 0..n}

\* a list of lines is a file as list(fp) gives it: only the last line may lack
\* its newline
IsFile(ls) == \A i \in 1..(Len(ls) - 1) : ls[i][Len(ls[i])] = NL

FilesUpTo(pool, n) == {Flatten(ls) : ls \in {f \in SeqsUpTo(pool, n) : IsFile(f)}}

\* lists of records without a repeated record
LintLists(n) ==
    {ls \in SeqsUpTo(LintPool, n) : \A i, j \in 1..Len(ls) : i # j => ls[i] # ls[j]}

\* a README.md with a count statement and a closed table region
ReadmeSample == Flatten(<<R_count, R_header, R_text, R_blank>>)
\* a src/lib.rs with a closed group region, with and without a declaration in it
LibSample == Flatten(<<G_start, G_end>>)
LibSampleDecl == Flatten(<<G_start, G_decl, G_end>>)

\* the lints list after the walk: src/lib.rs is read after the first libPos of
\* the other files' records
Collected(oth, pos, libText) ==
    SubSeq(oth, 1, pos) \o collect(S_lib, libText) \o SubSeq(oth, pos + 1, Len(oth))

(***************************************************************************)
(* The state: the files on disk, the command line, the variables of main   *)
(* and of the last replace_region call, and what the runs have left.       *)
(***************************************************************************)
VARIABLES
    readme,      \* README.md, the text on disk
    librs,       \* src/lib.rs, the text on disk
    libExists,   \* os.path.isfile('src/lib.rs')
    others,      \* the records declared by the other files under src
    libPos,      \* how many of them the walk reads before src/lib.rs
    print_only,  \* -n in sys.argv
    check,       \* -c in sys.argv
    pc,          \* where main stands
    run,         \* the number of the run
    lints,       \* main's list of records
    changed,     \* main's changed
    status,      \* what main returned: "None" or "1" ("running" before)
    stdout,      \* the table lines written to sys.stdout
    msg,         \* the message printed
    err,         \* the exception that ended the run
    lines,       \* replace_region's lines, of the last call
    new_lines,   \* replace_region's new_lines, of the last call
    calls,       \* how often the last call invoked its callback
    call,        \* the callback of the last call: which of the three it was
    result,      \* what the last call returned
    readme0,     \* README.md before the first run
    librs0,      \* src/lib.rs before the first run
    readmePrev,  \* README.md when this run started
    librsPrev    \* src/lib.rs when this run started

vars ==
    <<readme, librs, libExists, others, libPos, print_only, check, pc, run, lints,
      changed, status, stdout, msg, err, lines, new_lines, calls, call, result,
      readme0, librs0,
      readmePrev, librsPrev>>

files == <<readme, librs, libExists, others, libPos>>
argv == <<print_only, check>>
history == <<readme0, librs0, readmePrev, librsPrev>>
locals == <<lines, new_lines, calls, call, result>>

\* the most runs in a row the model follows
MaxRuns == 2

\* a tree already regenerated for its records
FreshReadme(ls) ==
    Flatten(<<CountLine(ls)>> \o gen_table(ls).out \o <<R_blank, R_text>>)
FreshLib(ls) == Flatten(<<G_start>> \o gen_group(ls).out \o <<G_end>>)

\* main's variables when a run starts
InitRun ==
    /\ pc = "start"
    /\ lints = <<>>
    /\ changed = FALSE
    /\ status = "running"
    /\ stdout = <<>>
    /\ msg = ""
    /\ err = ""
    /\ lines = <<>>
    /\ new_lines = <<>>
    /\ calls = 0
    /\ call = ""
    /\ result = FALSE

InitHistory ==
    /\ run = 1
    /\ readme0 = readme
    /\ librs0 = librs
    /\ readmePrev = readme
    /\ librsPrev = librs

\* many README.md files, one tree around them
InitReadme ==
    /\ readme \in FilesUpTo(ReadmePool, MaxScan)
    /\ librs \in {LibSample, LibSampleDecl}
    /\ libExists = TRUE
    /\ others \in {<<>>, <<LintA>>}
    /\ libPos = 0
    /\ print_only = FALSE
    /\ check \in BOOLEAN

\* many src/lib.rs files, and none
InitLib ==
    /\ readme = ReadmeSample
    /\ libExists \in BOOLEAN
    /\ librs \in (IF libExists THEN FilesUpTo(LibPool, MaxLib) ELSE {<<>>})
    /\ others \in {<<>>, <<LintA>>}
    /\ libPos = 0
    /\ print_only = FALSE
    /\ check \in BOOLEAN

\* many lists of records, in every order of the walk
InitLints ==
    /\ readme \in {ReadmeSample, R_text}
    /\ librs \in {LibSample, LibSampleDecl}
    /\ libExists = TRUE
    /\ others \in LintLists(MaxLints)
    /\ libPos \in 0..Len(others)
    /\ print_only \in BOOLEAN
    /\ check \in BOOLEAN

\* trees already regenerated
InitFresh ==
    /\ others \in (LintLists(MaxLints) \ {<<>>})
    /\ readme = FreshReadme(others)
    /\ librs = FreshLib(others)
    /\ libExists = TRUE
    /\ libPos = 0
    /\ print_only \in BOOLEAN
    /\ check \in BOOLEAN

Init ==
    /\ InitReadme \/ InitLib \/ InitLints \/ InitFresh
    /\ InitRun
    /\ InitHistory

(***************************************************************************)
(* main.                                                                   *)
(***************************************************************************)
\* a slip: write_back left at its default
WriteBackAlways(c) == TRUE

\* write_back=not check
WriteBack(c) == ~c

\* a slip: = for |=
OrAssignOverwrites(c, r) == r

\* changed |= ...
OrAssign(c, r) == c \/ r

\* lines 96-99: the check of the directory
CheckDirectory ==
    /\ pc = "start"
    /\ IF libExists
       THEN /\ pc' = "collect"
            /\ UNCHANGED <<msg, status>>
       ELSE /\ msg' = "Error: call this script from clippy checkout directory!"
            /\ status' = "None"
            /\ pc' = "done"
    /\ UNCHANGED <<files, argv, history, locals, run, lints, changed, stdout, err>>

\* lines 101-105: the walk over src
CollectLints ==
    /\ pc = "collect"
    /\ lints' = Collected(others, libPos, librs)
    /\ pc' = IF print_only THEN "print" ELSE "table"
    /\ UNCHANGED <<files, argv, history, locals, run, changed, status, stdout, msg, err>>

\* lines 107-109: -n
PrintTable ==
    /\ pc = "print"
    /\ LET g == gen_table(lints) IN
       IF g.raised
       THEN /\ err' = "ValueError"
            /\ pc' = "aborted"
            /\ UNCHANGED <<stdout, status>>
       ELSE /\ stdout' = g.out
            /\ status' = "None"
            /\ pc' = "done"
            /\ UNCHANGED err
    /\ UNCHANGED <<files, argv, history, locals, run, lints, changed, msg>>

\* one call of replace_region on the text of a file: the text after the call
\* and what the call leaves in main
Replace(call_, text, first, next) ==
    LET r == replace_region(call_, lints, text) IN
    /\ lines' = r.lines
    /\ new_lines' = r.new_lines
    /\ calls' = r.calls
    /\ call' = call_.callback
    /\ IF r.raised
       THEN /\ err' = "ValueError"
            /\ pc' = "aborted"
            /\ UNCHANGED <<changed, result>>
       ELSE /\ result' = r.changed
            /\ changed' = (IF first THEN r.changed ELSE OrAssign(changed, r.changed))
            /\ pc' = next
            /\ UNCHANGED err

\* the text replace_region leaves on disk
Written(call_, text) ==
    LET r == replace_region(call_, lints, text) IN
    IF ~r.raised /\ WriteBack(check) THEN Flatten(r.new_lines) ELSE text

\* lines 111-114: the table in README.md
ReplaceTable ==
    /\ pc = "table"
    /\ Replace(TableCall, readme, TRUE, "count")
    /\ readme' = Written(TableCall, readme)
    /\ UNCHANGED <<librs, libExists, others, libPos, argv, history, run, lints,
                   status, stdout, msg>>

\* lines 116-119: the count statement in README.md
ReplaceCount ==
    /\ pc = "count"
    /\ Replace(CountCall, readme, FALSE, "group")
    /\ readme' = Written(CountCall, readme)
    /\ UNCHANGED <<librs, libExists, others, libPos, argv, history, run, lints,
                   status, stdout, msg>>

\* lines 121-124: the group in src/lib.rs
ReplaceGroup ==
    /\ pc = "group"
    /\ Replace(GroupCall, librs, FALSE, "return")
    /\ librs' = Written(GroupCall, librs)
    /\ UNCHANGED <<readme, libExists, others, libPos, argv, history, run, lints,
                   status, stdout, msg>>

\* lines 126-128: the status
ReturnStatus ==
    /\ pc = "return"
    /\ IF check /\ changed
       THEN /\ msg' = "Please run util/update_lints.py to regenerate lints lists."
            /\ status' = "1"
       ELSE /\ status' = "None"
            /\ UNCHANGED msg
    /\ pc' = "done"
    /\ UNCHANGED <<files, argv, history, locals, run, lints, changed, stdout, err>>

\* an open() of the walk or of replace_region fails: the exception is not
\* caught, the run ends, and no file has been touched by the failing call
IOFailure ==
    /\ pc \in {"collect", "table", "count", "group"}
    /\ err' = "IOError"
    /\ pc' = "aborted"
    /\ UNCHANGED <<files, argv, history, locals, run, lints, changed, status, stdout, msg>>

\* the script is run again, with the same command line, on what a completed
\* run has left
RunAgain ==
    /\ pc = "done"
    /\ run < MaxRuns
    /\ run' = run + 1
    /\ readmePrev' = readme
    /\ librsPrev' = librs
    /\ pc' = "start"
    /\ lints' = <<>>
    /\ changed' = FALSE
    /\ status' = "running"
    /\ stdout' = <<>>
    /\ msg' = ""
    /\ err' = ""
    /\ lines' = <<>>
    /\ new_lines' = <<>>
    /\ calls' = 0
    /\ call' = ""
    /\ result' = FALSE
    /\ UNCHANGED <<files, argv, readme0, librs0>>

Next ==
    \/ CheckDirectory
    \/ CollectLints
    \/ PrintTable
    \/ ReplaceTable
    \/ ReplaceCount
    \/ ReplaceGroup
    \/ ReturnStatus
    \/ IOFailure
    \/ RunAgain

Spec == Init /\ [][Next]_vars

(***************************************************************************)
(* Regions, stated without the loop: a region starts at the first line     *)
(* matching the start pattern and ends at the first later line matching    *)
(* the end pattern (e = 0: no such line, the region is not closed); the    *)
(* next region is looked for after that end line.                          *)
(***************************************************************************)
FirstMatch(pattern, ls, p) ==
    LET S == {i \in p..Len(ls) : Search(pattern, ls[i])}
    IN  IF S = {} THEN 0 ELSE Least(S)

RECURSIVE Regions(_, _, _)
Regions(c, ls, p) ==
    LET s == FirstMatch(c.region_start, ls, p) IN
    IF s = 0 THEN <<>>
    ELSE LET e == FirstMatch(c.region_end, ls, s + 1) IN
         IF e = 0 THEN <<[s |-> s, e |-> 0]>>
         ELSE <<[s |-> s, e |-> e]>> \o Regions(c, ls, e + 1)

ClosedRegions(c, ls) == {k \in 1..Len(Regions(c, ls, 1)) : Regions(c, ls, 1)[k].e # 0}
OpenRegions(c, ls) == {k \in 1..Len(Regions(c, ls, 1)) : Regions(c, ls, 1)[k].e = 0}

\* the call whose callback is named
CallOf(cb) ==
    CASE cb = "gen_table" -> TableCall
      [] cb = "count" -> CountCall
      [] cb = "gen_group" -> GroupCall

\* the last replace_region call returned (it did not raise)
Returned == call # "" /\ pc \in {"count", "group", "return", "done"}

\* this run made its three replace_region calls and returned
Completed == pc = "done" /\ call = "gen_group"

(***************************************************************************)
(* C1.  In check mode no replace_region call writes a file: README.md and  *)
(* src/lib.rs hold, at every point of the run and after it, the text they  *)
(* held before the run, also when drift is reported (status 1).            *)
(***************************************************************************)
C1_CheckModeWritesNothing ==
    check => (readme = readme0 /\ librs = librs0)

\* a check run that reported drift, the files as they were
C1_Witness ==
    /\ check /\ ~print_only
    /\ Completed
    /\ status = "1"
    /\ readme = readme0 /\ librs = librs0

(***************************************************************************)
(* C2.  A run that made its three calls returns 1 exactly when it is a     *)
(* check run and one of the three regions would change, the regions taken  *)
(* from the files as the run found them; a write run never returns 1.      *)
(***************************************************************************)
WouldChange ==
    \/ replace_region(TableCall, lints, readmePrev).changed
    \/ replace_region(CountCall, lints, readmePrev).changed
    \/ replace_region(GroupCall, lints, librsPrev).changed

C2_StatusIsDrift ==
    /\ (Completed /\ check) => (status = "1" <=> WouldChange)
    /\ (pc = "done" /\ ~check) => status = "None"

\* a check run that returned 1 although its last call found nothing to change
C2_Witness ==
    /\ Completed /\ check
    /\ status = "1"
    /\ ~result

(***************************************************************************)
(* C3.  Idempotence as claimed: a write run started on what a completed    *)
(* write run has left reports no change and leaves both files as they are. *)
(***************************************************************************)
C3_SecondRunChangesNothing ==
    (run > 1 /\ ~check /\ ~print_only /\ Completed) =>
        (~changed /\ readme = readmePrev /\ librs = librsPrev)

(***************************************************************************)
(* What the claims about replace_region speak of.                         *)
(***************************************************************************)
\* the last call's parameters and the file it worked on, as it is on disk
LastCall == CallOf(call)
LastFile == IF call = "gen_group" THEN librs ELSE readme
LastRegions == Regions(LastCall, lines, 1)

\* a is b with some elements left out
RECURSIVE IsSubseq(_, _)
IsSubseq(a, b) ==
    IF a = <<>> THEN TRUE
    ELSE IF b = <<>> THEN FALSE
    ELSE IF Head(a) = Head(b) THEN IsSubseq(Tail(a), Tail(b))
    ELSE IsSubseq(a, Tail(b))

\* the elements of ls whose index is in I, in order
RECURSIVE Pick(_, _, _)
Pick(ls, I, i) ==
    IF i > Len(ls) THEN <<>>
    ELSE (IF i \in I THEN <<ls[i]>> ELSE <<>>) \o Pick(ls, I, i + 1)

\* the indices of the lines outside every region: before its start line, or
\* after its end line
OutsideRegions(R, ls) ==
    {i \in 1..Len(ls) :
        \A k \in 1..Len(R) : i < R[k].s \/ (R[k].e # 0 /\ i > R[k].e)}

(***************************************************************************)
(* C4.  In write mode the file a call has rewritten differs from the file  *)
(* it read only inside the regions: the lines outside every region are in  *)
(* the rewritten file in their order, the lines before the first start     *)
(* line are its first lines, and the lines after the end line of a closed  *)
(* last region are its last lines.                                         *)
(***************************************************************************)
C4_OutsideLinesKept ==
    (Returned /\ ~check) =>
        LET F == ReadLines(LastFile)
            R == LastRegions
            n == Len(lines)
        IN  /\ IsSubseq(Pick(lines, OutsideRegions(R, lines), 1), F)
            /\ R = <<>> => F = lines
            /\ R # <<>> =>
                 /\ Len(F) >= R[1].s - 1
                 /\ SubSeq(F, 1, R[1].s - 1) = SubSeq(lines, 1, R[1].s - 1)
            /\ (R # <<>> /\ R[Len(R)].e # 0) =>
                 /\ Len(F) >= n - R[Len(R)].e
                 /\ SubSeq(F, Len(F) - (n - R[Len(R)].e) + 1, Len(F))
                      = SubSeq(lines, R[Len(R)].e + 1, n)

\* a write run replaced a closed region that has lines before and after it
C4_Witness ==
    /\ Returned /\ ~check
    /\ result
    /\ LastRegions # <<>>
    /\ LastRegions[1].s > 1
    /\ LastRegions[Len(LastRegions)].e # 0
    /\ LastRegions[Len(LastRegions)].e < Len(lines)

(***************************************************************************)
(* C6.  The new line list of a call is the file's lines with every region  *)
(* spliced: the lines up to the start line, the start line unless          *)
(* replace_start, and for a closed region the callback's lines and then    *)
(* the end line itself; the lines of an unclosed region are left out.  The *)
(* callback is invoked once for every closed region, so the end line of    *)
(* every closed region is kept as it is.                                   *)
(***************************************************************************)
RECURSIVE Splice(_, _, _, _, _, _)
Splice(c, out, ls, R, k, p) ==
    IF k > Len(R) THEN SubSeq(ls, p, Len(ls))
    ELSE SubSeq(ls, p, R[k].s - 1)
           \o (IF c.replace_start THEN <<>> ELSE <<ls[R[k].s]>>)
           \o (IF R[k].e = 0 THEN <<>>
               ELSE out \o <<ls[R[k].e]>> \o Splice(c, out, ls, R, k + 1, R[k].e + 1))

C6_TwoStateScan ==
    Returned =>
        /\ new_lines = Splice(LastCall, Callback(LastCall, lints).out, lines, LastRegions, 1, 1)
        /\ calls = Cardinality(ClosedRegions(LastCall, lines))

\* the start pattern matched again after a region was closed
C6_Witness ==
    /\ Returned
    /\ calls >= 2

(***************************************************************************)
(* C7.  A region that is not closed: the call's new lines are those of the *)
(* lines before its start line (and that start line unless replace_start), *)
(* every later line is dropped, the callback is not invoked for it, the    *)
(* call returns true when a line was dropped, and a write run leaves the   *)
(* cut file on disk; the call raises ValueError only if a region of the    *)
(* file is closed.                                                         *)
(***************************************************************************)
C7_UnclosedRegionTruncates ==
    /\ (Returned /\ OpenRegions(LastCall, lines) # {}) =>
          LET s == LastRegions[Len(LastRegions)].s IN
          /\ new_lines =
                ScanLines(LastCall, lints, SubSeq(lines, 1, s - 1), 1, FALSE, <<>>, 0).new_lines
                  \o (IF LastCall.replace_start THEN <<>> ELSE <<lines[s]>>)
          /\ calls = Len(LastRegions) - 1
          /\ (s < Len(lines) \/ LastCall.replace_start) => result
          /\ ~check => LastFile = Flatten(new_lines)
    /\ (pc = "aborted" /\ err = "ValueError" /\ call # "") =>
          ClosedRegions(LastCall, lines) # {}

\* a write run cut README.md at a table header that no blank line follows
C7_Witness ==
    /\ Returned /\ ~check
    /\ call = "gen_table"
    /\ OpenRegions(LastCall, lines) # {}
    /\ LastRegions[Len(LastRegions)].s < Len(lines)
    /\ result
    /\ readme = Flatten(new_lines)
    /\ readme # readmePrev

(***************************************************************************)
(* C8.  The count statement as claimed: the new lines of the count call    *)
(* are the lines read, every count statement replaced by the line with the *)
(* number of records, every other line as it is.                           *)
(***************************************************************************)
C8_CountIsSingleLineReplace ==
    (Returned /\ call = "count") =>
        new_lines = [i \in 1..Len(lines) |->
                        IF Match_count(lines[i]) THEN CountLine(lints) ELSE lines[i]]

(***************************************************************************)
(* What the claims about the table speak of.                               *)
(***************************************************************************)
\* the lists with the records of ls in another order
Reorderings(ls) ==
    {[i \in 1..Len(ls) |-> ls[p[i]]] :
        p \in {q \in [1..Len(ls) -> 1..Len(ls)] :
                  \A i, j \in 1..Len(ls) : i # j => q[i] # q[j]}}

\* the name a table row shows: the row's text up to its first blank
RowName(row) == SubSeq(row, 1, Least({i \in 1..Len(row) : row[i] = " "}) - 1)

\* the rows of a table stand in strictly ascending order of their names
RowsAscend(table) ==
    \A i \in 3..(Len(table) - 1) : StrLess(RowName(table[i]), RowName(table[i + 1]))

DistinctNames(ls) == \A i, j \in 1..Len(ls) : i # j => ls[i].name # ls[j].name

\* the walk is over and it found records
Walked == pc \notin {"start", "collect"} /\ lints # <<>>

(***************************************************************************)
(* C5, as claimed.  For every list of records that is not empty the table  *)
(* is the same for every order of the records, its rows in strictly        *)
(* ascending order of their names.                                         *)
(***************************************************************************)
C5_OrderNeverMatters ==
    Walked =>
        /\ \A p \in Reorderings(lints) : gen_table(p) = gen_table(lints)
        /\ RowsAscend(gen_table(lints).out)

(***************************************************************************)
(* C5, amended.  For every list of records that is not empty and in which  *)
(* no two records have the same name, the table is the same for every      *)
(* order of the records, its rows in strictly ascending order of their     *)
(* names; a print run writes that table.                                   *)
(***************************************************************************)
C5_OrderOfDistinctNames ==
    (Walked /\ DistinctNames(lints)) =>
        /\ \A p \in Reorderings(lints) : gen_table(p) = gen_table(lints)
        /\ RowsAscend(gen_table(lints).out)
        /\ (print_only /\ pc = "done") =>
              \A p \in Reorderings(lints) : stdout = gen_table(p).out

\* a print run wrote the table of two records that the walk found in
\* descending order of their names
C5_Witness ==
    /\ print_only /\ pc = "done"
    /\ Len(lints) >= 2
    /\ DistinctNames(lints)
    /\ StrLess(lints[2].name, lints[1].name)
    /\ stdout = gen_table(lints).out

\* the walk is over (no open() of it failed) and it found no record
WalkedNone ==
    /\ libExists
    /\ pc \notin {"start", "collect"}
    /\ ~(pc = "aborted" /\ err = "IOError" /\ call = "")
    /\ lints = <<>>

(***************************************************************************)
(* C10.  No records: the table renderer raises before it yields a line.    *)
(* A print run then ends in ValueError with nothing printed; a write run   *)
(* whose README.md has a closed table region ends in the first             *)
(* replace_region call, before any file is written.                        *)
(***************************************************************************)
C10_EmptyListAborts ==
    /\ (print_only /\ WalkedNone /\ pc # "print") =>
          (pc = "aborted" /\ err = "ValueError" /\ stdout = <<>>)
    /\ (/\ ~print_only /\ ~check
        /\ WalkedNone /\ pc # "table"
        /\ ClosedRegions(TableCall, ReadLines(readmePrev)) # {}) =>
          /\ pc = "aborted"
          /\ err = "ValueError" => call = "gen_table"
          /\ readme = readmePrev
          /\ librs = librsPrev

\* a write run died in the table call, the files as they were
C10_Witness ==
    /\ ~print_only /\ ~check
    /\ WalkedNone
    /\ pc = "aborted" /\ err = "ValueError"
    /\ call = "gen_table"
    /\ readme = readme0 /\ librs = librs0

(***************************************************************************)
(* The order of the writes (the ground C9 stands on).  src/lib.rs is       *)
(* written by the third call only, after both calls on README.md have      *)
(* returned, and a run that ends in an exception restores nothing.         *)
(***************************************************************************)
LibRsWrittenLast ==
    librs # librsPrev => (call = "gen_group" /\ pc \in {"return", "done"})

\* a run died after README.md was rewritten and before src/lib.rs, which the
\* third call would have changed, was
ReadmeRewrittenLibRsNot ==
    /\ pc = "aborted"
    /\ ~check
    /\ readme # readmePrev
    /\ librs = librsPrev
    /\ replace_region(GroupCall, lints, librs).changed

====
